---- MODULE Spec2Model ----
(***************************************************************************)
(* Model of src/app.py: the Streamlit chat application "AI Financial       *)
(* Analyst".  One session is modelled.  Every user action triggers one     *)
(* run of main() (the Streamlit execution model); st.rerun() ends the      *)
(* current run and schedules one more run of main() with no user action.   *)
(*                                                                         *)
(* Texts are sequences of one-character strings, so that str.strip() and   *)
(* Python truthiness are computed and not assumed.  The two fixed reply    *)
(* literals of get_ai_response and the text of an exception are one-       *)
(* element sequences holding the whole literal.                            *)
(*                                                                         *)
(* Assumptions taken from the Streamlit execution model, which the         *)
(* program relies on (src/app.py:141-154):                                 *)
(*  - a run of main() runs to its end before the next user action is       *)
(*    handled (one handler at a time);                                     *)
(*  - a widget keeps its value between runs as long as its identity is     *)
(*    the same; the identity of st.text_input covers its `value` argument, *)
(*    so a run that passes another default renders a new widget holding    *)
(*    that default ("Rerun the app to show the new input");                *)
(*  - st.button returns True only in the run triggered by a click on a     *)
(*    button of the same identity (label and key).                         *)
(***************************************************************************)
EXTENDS Integers, Sequences, FiniteSets, TLC

\* ---------------------------------------------------------------- bounds
\* longest text typed, spoken or returned by the backend
MaxLen == 2
\* longest conversation history that is explored
MaxHist == 4

\* ----------------------------------------------------------------- texts
Chars == {" ", "a"}

RECURSIVE SeqsUpTo(_)
SeqsUpTo(n) ==
    IF n = 0 THEN {<<>>}
    ELSE LET shorter == SeqsUpTo(n - 1)
         IN  shorter \cup {Append(s, c) : s \in {x \in shorter : Len(x) = n - 1}, c \in Chars}

Texts == SeqsUpTo(MaxLen)

\* str.isspace() of one character
IsSpace(c) == c = " "

RECURSIVE LStrip(_)
LStrip(s) == IF s # <<>> /\ IsSpace(Head(s)) THEN LStrip(Tail(s)) ELSE s

RECURSIVE RStrip(_)
RStrip(s) ==
    IF s # <<>> /\ IsSpace(s[Len(s)]) THEN RStrip(SubSeq(s, 1, Len(s) - 1)) ELSE s

\* str.strip()
Strip(s) == RStrip(LStrip(s))

\* the literal returned at src/app.py:87
FallbackMsg == <<"I apologize, but I couldn't generate a proper response at this time.">>
\* the literal returned at src/app.py:95
ErrorMsg == <<"I apologize, but there was an error generating the response. Please try again.">>
\* str(e) of the exceptions model.invoke raises
ExcTexts == {<<"connection refused">>}

\* ------------------------------------------------- external collaborators
\* what model.invoke(full_prompt) does: returns a string, None, a non-string
\* that is falsy (0) or truthy (42), or raises an Exception with text val
BackendOutcomes ==
    [kind : {"str"}, val : Texts]
        \cup [kind : {"none", "falsy", "truthy"}, val : {<<>>}]
        \cup [kind : {"raise"}, val : ExcTexts]

\* what recognizer.recognize_google / the microphone do
SpeechOutcomes ==
    [kind : {"text"}, val : Texts]
        \cup [kind : {"UnknownValueError", "RequestError", "Exception"}, val : {<<>>}]

\* gTTS / st.audio either work or raise
TtsOutcomes == {"ok", "raise"}

\* Python truthiness of the value model.invoke returned
Truthy(out) ==
    CASE out.kind = "str" -> out.val # <<>>
      [] out.kind = "truthy" -> TRUE
      [] OTHER -> FALSE

IsStr(out) == out.kind = "str"

\* get_ai_response with the exception's text returned instead of the apology
get_ai_response_LeaksError(prompt, out) ==
    IF out.kind = "raise"
    THEN [ret |-> out.val, error |-> {<<"Error details: ">> \o out.val}]
    ELSE IF ~Truthy(out) \/ ~IsStr(out)
         THEN [ret |-> FallbackMsg, error |-> {}]
         ELSE [ret |-> Strip(out.val), error |-> {}]

\* get_ai_response(prompt): ret is the returned string, error the text shown
\* by st.error ({} when none is shown)
get_ai_response(prompt, out) ==
    IF out.kind = "raise"
    THEN [ret |-> ErrorMsg, error |-> {<<"Error details: ">> \o out.val}]
    ELSE IF ~Truthy(out) \/ ~IsStr(out)
         THEN [ret |-> FallbackMsg, error |-> {}]
         ELSE [ret |-> Strip(out.val), error |-> {}]

\* speech_to_text(): the recognized text as a one-element set, {} for None
speech_to_text(sp) == IF sp.kind = "text" THEN {sp.val} ELSE {}

\* text_to_speech(text): the audio played ({} when synthesis raised)
text_to_speech(text, tts) == IF tts = "ok" THEN {text} ELSE {}

\* ------------------------------------------------------------------ state
VARIABLES
    messages,       \* st.session_state.messages: the conversation history
    user_input,     \* st.session_state.user_input: the pending input
    widget,         \* the value held by the text input "text_input_widget"
    widgetValue,    \* the `value` argument the text input was last rendered with
    ttsKey,         \* n when a button with key tts_<n> is on the page, else 0
    pc,             \* "idle": waiting for the user; "rerun": st.rerun() pending
    last            \* what the latest run of main() did (history variable);
                    \* ran: the submit block, lines 157-177, was executed

vars == <<messages, user_input, widget, widgetValue, ttsKey, pc, last>>

Turn(role, content) == [role |-> role, content |-> content]

NoOutcome == [kind |-> "unused", val |-> <<>>]

\* st.text_input(..., value=value, key="text_input_widget"): the value the
\* widget returns in this run, w being what the browser holds for the widget
\* rendered with prevValue
text_input(w, value, prevValue) == IF value = prevValue THEN w ELSE value

\* the submit block without the append of line 159
AppendTurns_NoUserTurn(msgs, t, r) == Append(msgs, Turn("assistant", r))

\* the submit block giving up after line 159 when the model call failed
AppendTurns_AbortOnError(msgs, t, r) ==
    IF r = ErrorMsg
    THEN Append(msgs, Turn("user", t))
    ELSE Append(Append(msgs, Turn("user", t)), Turn("assistant", r))

\* lines 159 and 166: the two appends of the submit block
AppendTurns(msgs, t, r) == Append(Append(msgs, Turn("user", t)), Turn("assistant", r))

\* the submit block without line 177
ClearInput_Missing(submit, pending) == pending

\* line 177: st.session_state.user_input = "" at the end of the submit block
ClearInput(submit, pending) == IF submit THEN <<>> ELSE pending

\* line 157: `if user_input:`
Submits(ui) == ui # <<>>

\* line 150: `if spoken_text:`
Recognized(spoken) == spoken # {} /\ spoken # {<<>>}

\* line 173: st.button(..., key=f"tts_{len(messages)}") in the run triggered by
\* trigger, the clicked button being the one with key tts_<clicked>
ListenClicked(trigger, clicked, msgs) == trigger = "listen" /\ clicked = Len(msgs)

\* One run of main(), lines 97-183.  trigger names what started the run, w is
\* the text the browser holds for the text input, sp, out and tts are what the
\* microphone, model.invoke and the synthesis do if they are called.
main(trigger, w, sp, out, tts) ==
    LET ui      == text_input(w, user_input, widgetValue)
        spoken  == IF trigger = "mic" THEN speech_to_text(sp) ELSE {}
        submit  == Submits(ui)
        resp    == get_ai_response(ui, out)
        msgs    == IF submit THEN AppendTurns(messages, ui, resp.ret) ELSE messages
        clicked == submit /\ ListenClicked(trigger, ttsKey, msgs)
        audio   == IF clicked THEN text_to_speech(resp.ret, tts) ELSE {}
        rec     == [trigger |-> trigger, H |-> messages, pending |-> user_input,
                    ui |-> ui, speech |-> IF trigger = "mic" THEN sp ELSE NoOutcome]
    IN  IF Recognized(spoken)
        THEN \* lines 150-154: store the text, st.rerun() ends the run here
             /\ user_input' = CHOOSE s \in spoken : TRUE
             /\ messages' = messages
             /\ widget' = ui
             /\ widgetValue' = user_input
             /\ ttsKey' = 0
             /\ pc' = "rerun"
             /\ last' = rec @@ [ran |-> FALSE, out |-> NoOutcome,
                                r |-> <<>>, error |-> {}, after |-> messages,
                                ttsArg |-> {}, audio |-> {}]
        ELSE /\ widget' = ui
             /\ widgetValue' = user_input
             /\ last' = rec @@ [ran |-> submit,
                                out |-> IF submit THEN out ELSE NoOutcome,
                                r |-> IF submit THEN resp.ret ELSE <<>>,
                                error |-> IF submit THEN resp.error ELSE {},
                                after |-> msgs,
                                ttsArg |-> IF clicked THEN {resp.ret} ELSE {},
                                audio |-> audio]
             /\ IF trigger = "generate"
                THEN \* lines 180-183
                     /\ messages' = <<>>
                     /\ user_input' = <<>>
                     /\ ttsKey' = 0
                     /\ pc' = "rerun"
                ELSE /\ messages' = msgs
                     /\ user_input' = ClearInput(submit, user_input)
                     /\ ttsKey' = IF submit THEN Len(msgs) ELSE 0
                     /\ pc' = "idle"

\* the state after the first run of main() of a session, lines 125-130
Init ==
    /\ messages = <<>>
    /\ user_input = <<>>
    /\ widget = <<>>
    /\ widgetValue = <<>>
    /\ ttsKey = 0
    /\ pc = "idle"
    /\ last = [trigger |-> "start", H |-> <<>>, pending |-> <<>>, ui |-> <<>>,
               speech |-> NoOutcome, ran |-> FALSE, out |-> NoOutcome, r |-> <<>>,
               error |-> {}, after |-> <<>>, ttsArg |-> {}, audio |-> {}]

\* the explored histories are bounded: a run that may append needs room
Room == Len(messages) + 2 <= MaxHist

\* the user enters text t in the text input (Enter or focus change)
EnterText ==
    /\ pc = "idle" /\ Room
    /\ \E t \in Texts \ {widget}, out \in BackendOutcomes :
           main("type", t, NoOutcome, out, "ok")

\* the user clicks the microphone button, line 147
ClickMic ==
    /\ pc = "idle" /\ Room
    /\ \E sp \in SpeechOutcomes, out \in BackendOutcomes :
           main("mic", widget, sp, out, "ok")

\* the user clicks the "Listen to Response" button on the page, line 173
ClickListen ==
    /\ pc = "idle" /\ Room
    /\ ttsKey # 0
    /\ \E out \in BackendOutcomes, tts \in TtsOutcomes :
           main("listen", widget, NoOutcome, out, tts)

\* the user clicks "Generate Chat", line 180
ClickGenerate ==
    /\ pc = "idle"
    /\ \E out \in BackendOutcomes : main("generate", widget, NoOutcome, out, "ok")

\* the run st.rerun() asked for, lines 154 and 183
Rerun ==
    /\ pc = "rerun"
    /\ \E out \in BackendOutcomes :
           main(IF last.trigger = "mic" THEN "rerun_speech" ELSE "rerun_reset",
                widget, NoOutcome, out, "ok")

Next == EnterText \/ ClickMic \/ ClickListen \/ ClickGenerate \/ Rerun

Spec == Init /\ [][Next]_vars

\* ----------------------------------------------------------- properties
\* the latest run of main() handled a microphone click whose capture failed
CaptureFailed ==
    /\ last.trigger = "mic"
    /\ last.speech.kind \in {"UnknownValueError", "RequestError", "Exception"}

\* the latest run of main() handled a microphone click that recognized text
CaptureRecognized ==
    last.trigger = "mic" /\ Recognized(speech_to_text(last.speech))

\* a history of even length whose turns alternate user, assistant
Alternates(msgs) ==
    /\ Len(msgs) % 2 = 0
    /\ \A i \in DOMAIN msgs :
           msgs[i].role = IF i % 2 = 1 THEN "user" ELSE "assistant"

InvokedOncePerQuestion ==
    last.ran => last.trigger \in {"type", "rerun_speech"}

\* C3: once the "Generate Chat" run and the rerun it asks for are over, the
\* history is empty and the pending input is the empty string.
ResetYieldsEmptyHistory ==
    last.trigger = "rerun_reset" => (messages = <<>> /\ user_input = <<>>)

\* C4: a run whose input text is empty or whitespace-only appends no turn
\* and does not invoke the model.
BlankInputIsNoOp ==
    Strip(last.ui) = <<>> => (~last.ran /\ last.after = last.H)

\* C5: get_ai_response returns a non-empty string for every backend
\* outcome, and the fallback message when the backend result is not a
\* non-empty string.
ResponseNeverEmpty ==
    last.ran =>
        /\ last.r # <<>>
        /\ (last.out.kind \in {"none", "falsy", "truthy"} \/ last.out.val = <<>>)
               => last.r = FallbackMsg

\* C6: the run handling a microphone click whose capture failed appends no
\* turn, does not invoke the model and does not set the pending input.
FailedCaptureLeavesSession ==
    CaptureFailed =>
        (messages = last.H /\ ~last.ran /\ user_input = last.pending)

ExceptionBecomesApology ==
    /\ (last.ran /\ last.out.kind = "raise") =>
           last.after = last.H \o <<Turn("user", last.ui), Turn("assistant", ErrorMsg)>>
    /\ \A i \in DOMAIN messages : messages[i].content \notin ExcTexts

ExceptionBecomesApologyWitness ==
    /\ last.ran /\ last.out.kind = "raise"
    /\ last.error # {}
    /\ messages = last.after

\* C9: the run handling a microphone click that recognized s stores s as
\* the pending input, appends no turn and does not invoke the model; the
\* next run takes s as its input text, submits it and leaves the pending
\* input empty, as it is whenever no run is in progress.
SpeechBecomesPendingInput ==
    /\ CaptureRecognized =>
           /\ pc = "rerun"
           /\ user_input = last.speech.val /\ user_input # <<>>
           /\ messages = last.H /\ ~last.ran
    /\ last.trigger = "rerun_speech" =>
           /\ last.ran /\ last.ui = last.pending /\ last.ui # <<>>
           /\ user_input = <<>>
    /\ pc = "idle" => user_input = <<>>

SpeechBecomesPendingInputWitness ==
    /\ last.trigger = "rerun_speech"
    /\ last.pending = <<"a">> /\ last.H # <<>>
    /\ last.H[1].content # <<"a">>
    /\ user_input = <<>>

\* C10: the run triggered by a click on "Listen to Response" calls
\* text_to_speech with the response shown next to the button and leaves the
\* history as it was.
ListenPlaysResponse ==
    last.trigger = "listen" =>
        /\ last.ttsArg = {last.H[Len(last.H)].content}
        /\ messages = last.H

====
